---- MODULE Spec2Model ----
(***************************************************************************)
(* calc_forces_stiweb and update_stiweb_pointers of force_stiweb.c:        *)
(* the Stillinger-Weber force/energy/stress evaluation of potfit and the   *)
(* MPI loop that drives it, as a state machine.                            *)
(*                                                                         *)
(* A double is an exact rational <<n, d>> (d > 0, lowest terms) or NaN.    *)
(* exp() is exact only at 0, so the parameter vectors keep the arguments   *)
(* of every exp() the code evaluates at 0 (delta = 0, gamma = 0) or away   *)
(* from the branch that calls it; power_m is exact for integer exponents.  *)
(***************************************************************************)
EXTENDS Integers, Sequences, FiniteSets, TLC

(* ------------------------------ bounds -------------------------------- *)
\* calls of calc_forces_stiweb the optimizer makes (fcalls is capped here)
MaxCalls == 2
\* MPI processes of a distributed run (rank 0 is the coordinator)
NProcs == 2
\* atom types of the potential
NTypes == 2

(* --------------------------- double arithmetic ------------------------ *)
NaN == <<0, 0>>

\* the element of a singleton: The({body : v \in {e}}) is body with e
\* evaluated once and named v
The(S) == CHOOSE r \in S : TRUE

Abs(n) == IF n < 0 THEN -n ELSE n

RECURSIVE GCD(_, _)
GCD(a, b) == The({IF y = 0 THEN x ELSE GCD(y, x % y) : x \in {a}, y \in {b}})

\* n / d in lowest terms, d # 0
Q(n, d) ==
  The({The({IF y < 0 THEN <<(-x) \div g, (-y) \div g>> ELSE <<x \div g, y \div g>> :
            g \in {GCD(Abs(x), Abs(y))}}) : x \in {n}, y \in {d}})

R(n) == <<n, 1>>

Zero == R(0)
One == R(1)
Half == <<1, 2>>

isnan(a) == a[2] = 0

Add(a, b) ==
  The({IF isnan(x) \/ isnan(y) THEN NaN ELSE Q(x[1] * y[2] + y[1] * x[2], x[2] * y[2]) :
       x \in {a}, y \in {b}})

Neg(a) == The({IF isnan(x) THEN NaN ELSE <<-x[1], x[2]>> : x \in {a}})

Sub(a, b) == Add(a, Neg(b))

Mul(a, b) ==
  The({IF isnan(x) \/ isnan(y) THEN NaN ELSE Q(x[1] * y[1], x[2] * y[2]) : x \in {a}, y \in {b}})

\* every divisor the code meets on the model's inputs is nonzero or NaN
Div(a, b) ==
  The({IF isnan(x) \/ isnan(y) \/ y[1] = 0 THEN NaN ELSE Q(x[1] * y[2], x[2] * y[1]) :
       x \in {a}, y \in {b}})

\* the comparisons of C: false as soon as one side is NaN
Lt(a, b) ==
  \E x \in {a}, y \in {b} : ~isnan(x) /\ ~isnan(y) /\ x[1] * y[2] < y[1] * x[2]

Eq(a, b) == \E x \in {a}, y \in {b} : ~isnan(x) /\ ~isnan(y) /\ x = y

dsquare(a) == The({Mul(x, x) : x \in {a}})

RECURSIVE IntPow(_, _)
IntPow(x, n) == IF n = 0 THEN One ELSE Mul(x, IntPow(x, n - 1))

\* one component of power_m: x ^ y, for an integer y
power_m(x, y) ==
  The({IF isnan(u) \/ isnan(v) THEN NaN
       ELSE IF v[1] >= 0 THEN IntPow(u, v[1]) ELSE Div(One, IntPow(u, -v[1])) :
       u \in {x}, v \in {y}})

\* exp(x): exact at 0 only; no other argument is reached
exp(x) == The({CASE isnan(u) -> NaN [] u = Zero -> One : u \in {x}})

\* the value the coordinator returns for a NaN sum: the literal 10e30
Sentinel == <<"10e30">>
\* return -1.0 of a process that left the loop
MinusOne == R(-1)

(* ----------------------- potential table layout ----------------------- *)
ntypes == NTypes
paircol == (ntypes * (ntypes + 1)) \div 2
ndimtot == 2 + 12 * paircol + ntypes * ntypes * ntypes
Types == 0 .. ntypes - 1
Cols == 0 .. paircol - 1
Triples == Types \X Types \X Types

\* the column of the pair potential of two atom types
ColOf(t1, t2) ==
  IF t1 <= t2 THEN t1 * ntypes + t2 - (t1 * (t1 + 1)) \div 2
  ELSE t2 * ntypes + t1 - (t2 * (t2 + 1)) \div 2

NULL == -1

(* --------- configurations, atoms, neighbours, reference data ---------- *)
(* Built before any evaluation by the neighbour-list code and immutable:  *)
(* three configurations, the first with two atoms of unequal per-atom     *)
(* data, the second with force fitting off and stress fitting on, the     *)
(* third with a single self-interacting atom and stress fitting off.      *)
confs ==
  << [inconf |-> 2, uf |-> TRUE,  us |-> TRUE,  weight |-> R(1), vol |-> R(2)],
     [inconf |-> 1, uf |-> FALSE, us |-> TRUE,  weight |-> R(2), vol |-> R(1)],
     [inconf |-> 1, uf |-> TRUE,  us |-> FALSE, weight |-> R(1), vol |-> R(1)] >>

atoms ==
  << [absforce |-> Q(9, 10), contrib |-> FALSE, angl |-> <<Zero>>,
      neigh |-> << [nr |-> 1, r |-> R(1), dist |-> <<R(1), Zero, Zero>>],
                   [nr |-> 1, r |-> R(2), dist |-> <<Zero, R(1), Zero>>] >>],
     [absforce |-> Q(19, 10), contrib |-> TRUE, angl |-> <<Zero>>,
      neigh |-> << [nr |-> 0, r |-> R(1), dist |-> <<R(-1), Zero, Zero>>],
                   [nr |-> 0, r |-> R(2), dist |-> <<Zero, R(-1), Zero>>] >>],
     [absforce |-> Q(9, 10), contrib |-> TRUE, angl |-> <<Q(2, 3)>>,
      neigh |-> << [nr |-> 2, r |-> R(1), dist |-> <<R(1), Zero, Zero>>],
                   [nr |-> 2, r |-> R(1), dist |-> <<Zero, Zero, R(1)>>] >>],
     [absforce |-> Q(9, 10), contrib |-> TRUE, angl |-> <<>>,
      neigh |-> << [nr |-> 3, r |-> R(2), dist |-> <<Zero, Zero, R(1)>>] >>] >>

nconf == Len(confs)
natoms == Len(atoms)
Confs == 0 .. nconf - 1
Atoms == 0 .. natoms - 1

inconf(h) == confs[h + 1].inconf
conf_uf(h) == confs[h + 1].uf
conf_us(h) == confs[h + 1].us
conf_weight(h) == confs[h + 1].weight
conf_vol(h) == confs[h + 1].vol

RECURSIVE cnfstart(_)
cnfstart(h) == IF h = 0 THEN 0 ELSE cnfstart(h - 1) + inconf(h - 1)

\* atom_t and neigh_t, by global atom number g and neighbour number j
atom_typ(g) == g % ntypes
atom_n_neigh(g) == Len(atoms[g + 1].neigh)
atom_absforce(g) == atoms[g + 1].absforce
atom_contrib(g) == atoms[g + 1].contrib
atom_angl_cos(g, ijk) == atoms[g + 1].angl[ijk + 1]

neigh(g, j) ==
  LET n == atoms[g + 1].neigh[j + 1]
      nn == atom_n_neigh(g)
  IN  [nr |-> n.nr, typ |-> atom_typ(n.nr), r |-> n.r, inv_r |-> Div(One, n.r),
       col |-> ColOf(atom_typ(g), atom_typ(n.nr)), dist |-> n.dist,
       rdist |-> <<Mul(n.r, n.dist[1]), Mul(n.r, n.dist[2]), Mul(n.r, n.dist[3])>>,
       ijk_start |-> j * (nn - 1) - (j * (j - 1)) \div 2]

\* forces: [3 x natoms force components][nconf energies][6 x nconf stresses]
energy_p == 3 * natoms
stress_p == energy_p + nconf
mdim == stress_p + 6 * nconf
Slots == 0 .. mdim - 1

\* the reference data, in the layout of forces
force_0 ==
  [s \in Slots |-> IF s < energy_p THEN R(1 - (s % 3)) ELSE IF s < stress_p THEN One ELSE R(s % 2)]

eweight == R(2)
sweight == R(3)
FORCE_EPS == Q(1, 10)

\* what the caller left in forces before its first call
InitialForces == [s \in Slots |-> R(7)]

(* --------------------------- MPI partition ---------------------------- *)
\* the static block partition of the configurations over n processes
firstconf(n, p) == (p * nconf) \div n
myconf(n, p) == firstconf(n, p + 1) - firstconf(n, p)
firstatom(n, p) == cnfstart(firstconf(n, p))
myatoms(n, p) == cnfstart(firstconf(n, p + 1)) - firstatom(n, p)

(* -------------------------- parameter vectors ------------------------- *)
\* the named values of the vectors the optimizer passes
ParSets ==
  << [A |-> R(2), B |-> R(1), p |-> R(1), q |-> Zero, delta |-> Zero, a1 |-> R(3),
      gamma |-> Zero, a2 |-> R(3), lambda |-> R(1)],
     [A |-> R(9), B |-> R(1), p |-> R(2), q |-> R(1), delta |-> Zero, a1 |-> R(2),
      gamma |-> R(100), a2 |-> R(2), lambda |-> R(3)],
     [A |-> NaN, B |-> R(1), p |-> R(1), q |-> Zero, delta |-> Zero, a1 |-> R(3),
      gamma |-> Zero, a2 |-> R(3), lambda |-> R(1)] >>

PairNames == <<"A", "B", "p", "q", "delta", "a1">>
EnvNames == <<"gamma", "a2">>

\* the named parameter stored in slot s of the table, "" for a slot that holds none
SlotName(s) ==
  IF s < 2 THEN ""
  ELSE IF s < 2 + 8 * paircol
       THEN (IF (s - 2) % 8 < 6 THEN PairNames[((s - 2) % 8) + 1] ELSE "")
  ELSE IF s < 2 + 12 * paircol
       THEN (IF (s - 2 - 8 * paircol) % 4 < 2 THEN EnvNames[((s - 2 - 8 * paircol) % 4) + 1] ELSE "")
  ELSE "lambda"

\* the table of parameter set ps: A grows with the pair column, every third
\* lambda is zero (a triple of types without three-body interaction)
XiOf(ps) ==
  [s \in 0 .. ndimtot - 1 |->
     LET nm == SlotName(s)
     IN  IF nm = "" THEN Zero
         ELSE IF nm = "A" THEN Add(ps.A, R((s - 2) \div 8))
         ELSE IF nm = "lambda"
              THEN (IF (s - 2 - 12 * paircol) % 3 = 1 THEN Zero ELSE ps.lambda)
         ELSE ps[nm]]

\* where the caller's tables live: opt_pot.table and a modified copy of it
Addrs == {1000, 2000}
\* the calls the optimizer makes: the table, and where it is
Inputs ==
  { [vec |-> 1, addr |-> 1000], [vec |-> 2, addr |-> 2000], [vec |-> 3, addr |-> 1000] }
\* the table of a process that is not the root
WorkerAddr == 1000

\* the bounds of a parameter (apot_table.pmin, pmax) and its penalty-free range
pmin(s) == Zero
pmax(s) == IF SlotName(s) = "A" THEN R(4) ELSE R(100)
punish_max(s) == IF SlotName(s) = "A" THEN R(3) ELSE R(100)

\* apot_check_params: every parameter is put back into its bounds
apot_check_params(x) ==
  [s \in DOMAIN x |->
     IF SlotName(s) = "" THEN x[s]
     ELSE IF Lt(x[s], pmin(s)) THEN pmin(s)
     ELSE IF Lt(pmax(s), x[s]) THEN pmax(s)
     ELSE x[s]]

\* the penalty of slot s
punish_slot(x, s) ==
  IF SlotName(s) # "" /\ Lt(punish_max(s), x[s]) THEN dsquare(Sub(x[s], punish_max(s))) ELSE Zero

\* the sum of the penalties of the slots lo .. hi
RECURSIVE punish_from(_, _, _)
punish_from(x, lo, hi) ==
  IF lo > hi THEN Zero
  ELSE IF lo = hi THEN punish_slot(x, lo)
  ELSE Add(punish_from(x, lo, (lo + hi) \div 2), punish_from(x, (lo + hi) \div 2 + 1, hi))

\* apot_punish: the penalty of the parameters outside their penalty-free range
apot_punish(x) == punish_from(x, 0, ndimtot - 1)

(* ------------------------ update_stiweb_pointers ---------------------- *)
\* sw before the first call: nothing allocated
sw_uninit ==
  [init |-> 0, A |-> <<>>, B |-> <<>>, p |-> <<>>, q |-> <<>>, delta |-> <<>>,
   a1 |-> <<>>, gamma |-> <<>>, a2 |-> <<>>, lambda |-> <<>>]

\* the allocation of the first call: every pair view NULL
sw_alloc(sw) ==
  IF sw.init # 0 THEN sw
  ELSE [init |-> 1,
        A |-> [c \in Cols |-> NULL], B |-> [c \in Cols |-> NULL],
        p |-> [c \in Cols |-> NULL], q |-> [c \in Cols |-> NULL],
        delta |-> [c \in Cols |-> NULL], a1 |-> [c \in Cols |-> NULL],
        gamma |-> [c \in Cols |-> NULL], a2 |-> [c \in Cols |-> NULL],
        lambda |-> [t \in Triples |-> NULL]]

\* the first value of index
index0 == 2

\* the first loop over i < paircol: six views, then index += 2
set_pair(sw, xi, index) ==
  [sw EXCEPT !.A = [i \in Cols |-> xi + index + 8 * i],
             !.B = [i \in Cols |-> xi + index + 8 * i + 1],
             !.p = [i \in Cols |-> xi + index + 8 * i + 2],
             !.q = [i \in Cols |-> xi + index + 8 * i + 3],
             !.delta = [i \in Cols |-> xi + index + 8 * i + 4],
             !.a1 = [i \in Cols |-> xi + index + 8 * i + 5]]

\* the second loop without its index += 2: gamma and a2 packed in pairs
set_env_packed(sw, xi, index) ==
  [sw EXCEPT !.gamma = [i \in Cols |-> xi + index + 2 * i],
             !.a2 = [i \in Cols |-> xi + index + 2 * i + 1]]

\* the second loop over i < paircol: two views, then index += 2
set_env(sw, xi, index) ==
  [sw EXCEPT !.gamma = [i \in Cols |-> xi + index + 4 * i],
             !.a2 = [i \in Cols |-> xi + index + 4 * i + 1]]

\* the three nested loops over i, j, k < ntypes: one view each
set_lambda(sw, xi, index) ==
  [sw EXCEPT !.lambda = [t \in Triples |-> xi + index + (t[1] * ntypes + t[2]) * ntypes + t[3]]]

\* the comparison without the two leading slots: sw->A[0] != xi
address_unshifted(sw, xi) == sw.A[0] # xi

\* "update only if the address has changed"
address_changed(sw, xi) == sw.A[0] # xi + index0

update_stiweb_pointers(sw0, xi) ==
  LET sw == sw_alloc(sw0)
  IN  IF address_changed(sw, xi)
      THEN set_lambda(set_env(set_pair(sw, xi, index0), xi, index0 + 8 * paircol),
                      xi, index0 + 8 * paircol + 4 * paircol)
      ELSE sw

\* *ptr, for a view ptr into the table x that lives at base
Deref(x, base, ptr) ==
  IF ptr >= base /\ ptr < base + ndimtot THEN x[ptr - base] ELSE NaN

(* --------------------- the loop over configurations ------------------- *)
(* e  = [xi, base, sw, build]: the table, where it is, the views, the     *)
(*      compile-time switches STRESS, FWEIGHT, CONTRIB, MPI;              *)
(* st = [forces, tmpsum, atom, cache, applied, stressfit, confs]: the     *)
(*      output buffer, the local sum, the pointer atom, the f and df of   *)
(*      every neighbour, and a record of what the pass did: the atom      *)
(*      whose data the third loop applied to each atom, the               *)
(*      configurations whose stress residual was added, the               *)
(*      configurations evaluated.                                          *)
Par(e, name, i) == Deref(e.xi, e.base, e.sw[name][i])

AddTo(f, s, v) == [f EXCEPT ![s] = Add(@, v)]

AddVec(f, s, v) ==
  The({[f EXCEPT ![s] = Add(@, w[1]), ![s + 1] = Add(@, w[2]), ![s + 2] = Add(@, w[3])] :
       w \in {v}})

VScale(a, v) == The({<<Mul(x, w[1]), Mul(x, w[2]), Mul(x, w[3])>> : x \in {a}, w \in {v}})

VAdd(v, w) == The({<<Add(x[1], y[1]), Add(x[2], y[2]), Add(x[3], y[3])>> : x \in {v}, y \in {w}})

VNeg(v) == The({<<Neg(x[1]), Neg(x[2]), Neg(x[3])>> : x \in {v}})

\* a loop that does not reset the energy of the configuration
reset_energy_skipped(f, h) == f

\* forces[energy_p + h] = 0.
reset_energy(f, h) == [f EXCEPT ![energy_p + h] = Zero]

\* forces[stress_p + 6 * h + i] = 0., i < 6
reset_stress(f, h) ==
  The({[s \in Slots |-> IF s >= stress_p + 6 * h /\ s < stress_p + 6 * h + 6 THEN Zero ELSE g[s]] :
       g \in {f}})

\* first loop over atoms: reset forces
reset_forces(f, h) ==
  The({[s \in Slots |->
          IF s >= 3 * cnfstart(h) /\ s < 3 * (cnfstart(h) + inconf(h))
          THEN (IF conf_uf(h) THEN Neg(force_0[s]) ELSE Zero)
          ELSE g[s]] : g \in {f}})

\* v2_val and v2_grad of a neighbour inside the cutoff a1 (v2_grad is read
\* only if (uf))
pair_v2(e, nj, self) ==
  LET col == nj.col
      a1 == Par(e, "a1", col)
      pp == Par(e, "p", col)
      qq == Par(e, "q", col)
      delta == Par(e, "delta", col)
      phi_r == Mul(Par(e, "A", col), power_m(nj.r, Neg(pp)))
      phi_a == Mul(Neg(Par(e, "B", col)), power_m(nj.r, Neg(qq)))
      inv_c == Div(One, Sub(nj.r, a1))
      f_cut == exp(Mul(delta, inv_c))
  IN  The({The({[val |-> IF self THEN Mul(val0, Half) ELSE val0,
                 grad |-> IF self THEN Mul(grad0, Half) ELSE grad0] :
                grad0 \in {Sub(Mul(Mul(Mul(Neg(val0), delta), inv_c), inv_c),
                               Mul(Mul(f_cut, nj.inv_r), Add(Mul(pp, phi_r), Mul(qq, phi_a))))}}) :
           val0 \in {Mul(Add(phi_r, phi_a), f_cut)}})

\* the energy, force and stress the pair term of neighbour nj of atom g adds
pair_add(build, f, h, g, nj, v2_val, tmp_force) ==
  LET k == 3 * g
      uf == conf_uf(h)
      us == conf_us(h)
      stresses == stress_p + 6 * h
      f1 == AddTo(f, energy_p + h, Mul(Half, v2_val))
      f2 == IF uf THEN AddVec(f1, k, tmp_force) ELSE f1
  IN  IF uf /\ build.STRESS /\ us
      THEN [f2 EXCEPT
              ![stresses] = Sub(@, Mul(Half, Mul(nj.rdist[1], tmp_force[1]))),
              ![stresses + 1] = Sub(@, Mul(Half, Mul(nj.rdist[2], tmp_force[2]))),
              ![stresses + 2] = Sub(@, Mul(Half, Mul(nj.rdist[3], tmp_force[3]))),
              ![stresses + 3] = Sub(@, Mul(Half, Mul(nj.rdist[1], tmp_force[2]))),
              ![stresses + 4] = Sub(@, Mul(Half, Mul(nj.rdist[2], tmp_force[3]))),
              ![stresses + 5] = Sub(@, Mul(Half, Mul(nj.rdist[3], tmp_force[1])))]
      ELSE f2

\* pair potential part: if (neigh_j->r < *(sw->a1[col]))
pair_forces(e, f, h, g, nj) ==
  IF ~Lt(nj.r, Par(e, "a1", nj.col)) THEN f
  ELSE The({The({pair_add(e.build, f, h, g, nj, v2.val, tmp_force) :
                 tmp_force \in {VScale(v2.grad, nj.dist)}}) :
            v2 \in {pair_v2(e, nj, nj.nr = g)}})

\* the pair potential part of neighbour j of atom i
pair_part(e, st, h, i, j) ==
  The({[st EXCEPT !.forces = pair_forces(e, @, h, cnfstart(h) + i, nj)] :
       nj \in {neigh(cnfstart(h) + i, j)}})

\* "calculate for later": f and df of a neighbour, old if it is outside a2
envelope(e, nj, old) ==
  LET a2 == Par(e, "a2", nj.col)
      gamma == Par(e, "gamma", nj.col)
      tmp_r == Sub(nj.r, a2)
  IN  IF ~Lt(nj.r, a2) THEN old
      ELSE IF Lt(tmp_r, Mul(Q(-1, 100), gamma))
      THEN The({[f |-> f, df |-> Div(Mul(Mul(Mul(Neg(f), gamma), t), t), nj.r)] :
                f \in {exp(Mul(gamma, Div(One, tmp_r)))}, t \in {Div(One, tmp_r)}})
      ELSE [f |-> Zero, df |-> Zero]

envelope_part(e, st, h, i, j) ==
  The({[st EXCEPT !.cache[<<cnfstart(h) + i, j>>] = envelope(e, nj, @)] :
       nj \in {neigh(cnfstart(h) + i, j)}})

\* loop over neighbors j
RECURSIVE neigh_loop(_, _, _, _, _)
neigh_loop(e, st, h, i, j) ==
  IF j >= atom_n_neigh(cnfstart(h) + i) THEN st
  ELSE The({The({neigh_loop(e, s2, h, i, j + 1) : s2 \in {envelope_part(e, s1, h, i, j)}}) :
            s1 \in {pair_part(e, st, h, i, j)}})

\* v3_val, force_j and force_k of a triple
triple_v3(lambda, cos, nj, nk, fj, fk) ==
  LET tmp == Add(cos, Q(1, 3))
      tmp_jj == Div(One, Mul(nj.r, nj.r))
      tmp_jk == Div(One, Mul(nj.r, nk.r))
      tmp_kk == Div(One, Mul(nk.r, nk.r))
  IN  The({[val |-> Mul(Mul(Mul(Mul(lambda, fj.f), fk.f), tmp), tmp),
            force_j |-> VAdd(VScale(Sub(Mul(Mul(tmp_grad2, fj.df), fk.f),
                                        Mul(Mul(tmp_grad1, cos), tmp_jj)), nj.rdist),
                             VScale(Mul(tmp_grad1, tmp_jk), nk.rdist)),
            force_k |-> VAdd(VScale(Sub(Mul(Mul(tmp_grad2, fk.df), fj.f),
                                        Mul(Mul(tmp_grad1, cos), tmp_kk)), nk.rdist),
                             VScale(Mul(tmp_grad1, tmp_jk), nj.rdist))] :
           tmp_grad1 \in {Mul(Mul(Mul(Mul(lambda, fj.f), fk.f), R(2)), tmp)},
           tmp_grad2 \in {Mul(Mul(lambda, tmp), tmp)}})

\* the energy, the forces on i, j and k and the stress a triple adds
triple_add(build, f, h, g, nj, nk, v3) ==
  LET force_j == v3.force_j
      force_k == v3.force_k
      rj == nj.rdist
      rk == nk.rdist
      stresses == stress_p + 6 * h
      f1 == AddTo(f, energy_p + h, v3.val)
      f2 == AddVec(f1, 3 * g, VAdd(force_j, force_k))
      f3 == AddVec(f2, 3 * nj.nr, VNeg(force_j))
      f4 == AddVec(f3, 3 * nk.nr, VNeg(force_k))
  IN  IF build.STRESS /\ conf_us(h)
      THEN [f4 EXCEPT
              ![stresses] = Add(@, Add(Mul(force_j[1], rj[1]), Mul(force_k[1], rk[1]))),
              ![stresses + 1] = Add(@, Add(Mul(force_j[2], rj[2]), Mul(force_k[2], rk[2]))),
              ![stresses + 2] = Add(@, Add(Mul(force_j[3], rj[3]), Mul(force_k[3], rk[3]))),
              ![stresses + 3] = Add(@, Mul(Half,
                 Add(Add(Mul(force_j[2], rj[3]), Mul(force_k[2], rk[3])),
                     Add(Mul(force_j[3], rj[2]), Mul(force_k[3], rk[2]))))),
              ![stresses + 4] = Add(@, Mul(Half,
                 Add(Add(Mul(force_j[3], rj[1]), Mul(force_k[3], rk[1])),
                     Add(Mul(force_j[1], rj[3]), Mul(force_k[1], rk[3]))))),
              ![stresses + 5] = Add(@, Mul(Half,
                 Add(Add(Mul(force_j[1], rj[2]), Mul(force_k[1], rk[2])),
                     Add(Mul(force_j[2], rj[1]), Mul(force_k[2], rk[1])))))]
      ELSE f4

\* inside the loop over kk: the cutoff of k, the shortcut for lambda == 0
triple_forces(e, f, h, g, nj, nk, cos, fj, fk) ==
  IF ~Lt(nk.r, Par(e, "a2", nk.col))
     \/ Eq(Zero, Par(e, "lambda", <<atom_typ(g), nj.typ, nk.typ>>))
  THEN f
  ELSE The({triple_add(e.build, f, h, g, nj, nk, v3) :
            v3 \in {triple_v3(Par(e, "lambda", <<atom_typ(g), nj.typ, nk.typ>>),
                              cos, nj, nk, fj, fk)}})

\* the three-body term of the neighbours jj < kk of atom i
triple_part(e, st, h, i, jj, kk) ==
  The({[s EXCEPT !.forces =
          triple_forces(e, @, h, cnfstart(h) + i, nj, nk,
                        atom_angl_cos(cnfstart(h) + i, nj.ijk_start + (kk - jj - 1)),
                        s.cache[<<cnfstart(h) + i, jj>>], s.cache[<<cnfstart(h) + i, kk>>])] :
       s \in {st}, nj \in {neigh(cnfstart(h) + i, jj)}, nk \in {neigh(cnfstart(h) + i, kk)}})

\* loop over remaining neighbors kk
RECURSIVE kk_loop(_, _, _, _, _, _)
kk_loop(e, st, h, i, jj, kk) ==
  IF kk >= atom_n_neigh(cnfstart(h) + i) THEN st
  ELSE The({kk_loop(e, s, h, i, jj, kk + 1) : s \in {triple_part(e, st, h, i, jj, kk)}})

\* if (neigh_j->r < *(sw->a2[neigh_j->col[0]]))
inside_a2(e, g, jj) ==
  \E nj \in {neigh(g, jj)} : Lt(nj.r, Par(e, "a2", nj.col))

\* loop over all neighbors jj
RECURSIVE jj_loop(_, _, _, _, _)
jj_loop(e, st, h, i, jj) ==
  IF jj >= atom_n_neigh(cnfstart(h) + i) - 1 THEN st
  ELSE The({jj_loop(e, s, h, i, jj + 1) :
            s \in {IF inside_a2(e, cnfstart(h) + i, jj)
                   THEN kk_loop(e, st, h, i, jj, jj + 1) ELSE st}})

\* 2nd loop: atom = conf_atoms + i + cnfstart[h] - firstatom, then its terms
RECURSIVE second_loop(_, _, _, _)
second_loop(e, st, h, i) ==
  IF i >= inconf(h) THEN st
  ELSE The({The({second_loop(e, s2, h, i + 1) : s2 \in {jj_loop(e, s1, h, i, 0)}}) :
            s1 \in {neigh_loop(e, [st EXCEPT !.atom = cnfstart(h) + i], h, i, 0)}})

\* the atom whose absforce and contrib the third loop reads for atom i
third_loop_atom(st, h, i) == st.atom

\* forces[n_i + 0 .. 2] /= FORCE_EPS + atom->absforce
weighted(build, f, n_i, a) ==
  IF build.FWEIGHT
  THEN The({[f EXCEPT ![n_i] = Div(@, w), ![n_i + 1] = Div(@, w), ![n_i + 2] = Div(@, w)] :
            w \in {Add(FORCE_EPS, atom_absforce(a))}})
  ELSE f

\* one atom of the third loop, atom a supplying absforce and contrib
third_atom(build, s, h, i, a) ==
  LET n_i == 3 * (cnfstart(h) + i)
  IN  The({[s EXCEPT
              !.forces = f,
              !.tmpsum = IF ~build.CONTRIB \/ atom_contrib(a)
                         THEN Add(@, Mul(conf_weight(h),
                                         Add(Add(dsquare(f[n_i]), dsquare(f[n_i + 1])),
                                             dsquare(f[n_i + 2]))))
                         ELSE @,
              !.applied = IF build.FWEIGHT \/ build.CONTRIB
                          THEN [@ EXCEPT ![cnfstart(h) + i] = a] ELSE @] :
           f \in {weighted(build, s.forces, n_i, a)}})

\* third loop over all atoms, sum up forces
RECURSIVE third_loop(_, _, _, _)
third_loop(e, st, h, i) ==
  IF i >= inconf(h) THEN st
  ELSE The({third_loop(e, s, h, i + 1) :
            s \in {third_atom(e.build, st, h, i, third_loop_atom(st, h, i))}})

\* energy contributions
energy_part(st, h) ==
  The({The({[s EXCEPT !.forces[energy_p + h] = v,
                      !.tmpsum = Add(@, Mul(Mul(conf_weight(h), eweight), dsquare(v)))] :
            v \in {Sub(Div(s.forces[energy_p + h], R(inconf(h))), force_0[energy_p + h])}}) :
       s \in {st}})

\* the stress contributions under if (us) alone
stress_fit_us(h) == conf_us(h)

\* the condition of the stress contributions: if (uf && us)
stress_fit(h) == conf_uf(h) /\ conf_us(h)

\* one stress component: divided by the volume, the reference subtracted
stress_slot(st, h, i) ==
  The({The({[s EXCEPT !.forces[stress_p + 6 * h + i] = v,
                      !.tmpsum = Add(@, Mul(Mul(conf_weight(h), sweight), dsquare(v)))] :
            v \in {Sub(Div(s.forces[stress_p + 6 * h + i], conf_vol(h)),
                       force_0[stress_p + 6 * h + i])}}) :
       s \in {st}})

RECURSIVE stress_loop(_, _, _)
stress_loop(st, h, i) ==
  IF i >= 6 THEN st
  ELSE The({stress_loop(s, h, i + 1) : s \in {stress_slot(st, h, i)}})

\* stress contributions
stress_part(e, st, h) ==
  IF e.build.STRESS /\ stress_fit(h)
  THEN [stress_loop(st, h, 0) EXCEPT !.stressfit = @ \cup {h}]
  ELSE st

\* reset energies and stresses, and the first loop over atoms
reset_part(e, st, h) ==
  [st EXCEPT !.forces = reset_forces(IF e.build.STRESS
                                     THEN reset_stress(reset_energy(@, h), h)
                                     ELSE reset_energy(@, h), h),
             !.confs = @ \cup {h}]

\* one configuration h
conf_step(e, st, h) ==
  The({The({The({stress_part(e, s3, h) : s3 \in {energy_part(s2, h)}}) :
            s2 \in {IF conf_uf(h) THEN third_loop(e, s1, h, 0) ELSE s1}}) :
       s1 \in {second_loop(e, reset_part(e, st, h), h, 0)}})

\* for (h = firstconf; h < firstconf + myconf; h++)
RECURSIVE conf_loop(_, _, _, _)
conf_loop(e, st, h, last) ==
  IF h >= last THEN st
  ELSE The({conf_loop(e, s, h + 1, last) : s \in {conf_step(e, st, h)}})

NoCache ==
  [n \in UNION {{<<g, j>> : j \in 0 .. atom_n_neigh(g) - 1} : g \in Atoms} |-> [f |-> Zero, df |-> Zero]]
NoneApplied == [g \in Atoms |-> -1]

(* ------------------------------ the state ----------------------------- *)
VARIABLES
  build,    \* the compile-time switches MPI, STRESS, FWEIGHT, CONTRIB
  pc,       \* where each process is in calc_forces_stiweb
  flag,     \* each process's flag
  xi,       \* each process's table xi_opt
  addr,     \* where that table is (the pointer xi_opt)
  sw,       \* each process's apot_table.sw
  forces,   \* each process's forces
  cache,    \* each process's neigh_t f and df
  tmpsum,   \* each process's tmpsum
  sum,      \* each process's sum
  ret,      \* what each process returned
  fcalls,   \* the function call counter of the root
  did,      \* what each process did since the top of its loop
  down,     \* broadcasts of the root each process has not yet received
  up        \* what each process sent for MPI_Reduce and MPI_Gatherv

vars == <<build, pc, flag, xi, addr, sw, forces, cache, tmpsum, sum, ret, fcalls, did, down, up>>

AllProcs == 0 .. NProcs - 1
Workers == AllProcs \ {0}
\* the processes of the run: without MPI, the root alone
Procs == IF build.MPI THEN AllProcs ELSE {0}
nprocs == IF build.MPI THEN NProcs ELSE 1

Builds ==
  { [MPI |-> TRUE, STRESS |-> TRUE, FWEIGHT |-> TRUE, CONTRIB |-> TRUE],
    [MPI |-> TRUE, STRESS |-> FALSE, FWEIGHT |-> FALSE, CONTRIB |-> FALSE],
    [MPI |-> FALSE, STRESS |-> TRUE, FWEIGHT |-> TRUE, CONTRIB |-> TRUE],
    [MPI |-> FALSE, STRESS |-> TRUE, FWEIGHT |-> FALSE, CONTRIB |-> FALSE] }

Flags == {0, 1, 2}
NoRet == <<"none">>

\* nothing done yet: the top of the loop, with the buffer f and the table x.
\* checks: calls of apot_check_params; updates: calls of
\* update_stiweb_pointers, oldA the value of sw->A[0] the last one compared
\* and rebuilt whether it set the views; collect: collectives completed;
\* nantests: evaluations of isnan(sum); buf and arg: forces and xi_opt at
\* the top of the loop.
Fresh(f, x) ==
  [checks |-> 0, updates |-> 0, oldA |-> NULL, rebuilt |-> FALSE, collect |-> 0,
   nantests |-> 0, applied |-> NoneApplied, stressfit |-> {}, confs |-> {}, buf |-> f, arg |-> x]

Init ==
  /\ build \in Builds
  /\ pc = [p \in AllProcs |-> IF p = 0 THEN "idle" ELSE IF build.MPI THEN "bcast_flag" ELSE "none"]
  /\ flag = [p \in AllProcs |-> 0]
  /\ xi = [p \in AllProcs |-> [s \in 0 .. ndimtot - 1 |-> Zero]]
  /\ addr = [p \in AllProcs |-> WorkerAddr]
  /\ sw = [p \in AllProcs |-> sw_uninit]
  /\ forces = [p \in AllProcs |-> InitialForces]
  /\ cache = [p \in AllProcs |-> NoCache]
  /\ tmpsum = [p \in AllProcs |-> Zero]
  /\ sum = [p \in AllProcs |-> Zero]
  /\ ret = [p \in AllProcs |-> NoRet]
  /\ fcalls = 0
  /\ did = [p \in AllProcs |-> Fresh(InitialForces, [s \in 0 .. ndimtot - 1 |-> Zero])]
  /\ down = [p \in AllProcs |-> <<>>]
  /\ up = [p \in AllProcs |-> <<>>]

(* ------------------------------ the steps ----------------------------- *)
\* The optimizer calls calc_forces_stiweb(xi_opt, forces, f) on the root:
\* tmpsum = 0.0 at the top of the loop.
Call(in, f) ==
  /\ pc[0] = "idle"
  /\ fcalls < MaxCalls \/ (build.MPI /\ f = 1)
  /\ flag' = [flag EXCEPT ![0] = f]
  /\ xi' = [xi EXCEPT ![0] = XiOf(ParSets[in.vec])]
  /\ addr' = [addr EXCEPT ![0] = in.addr]
  /\ tmpsum' = [tmpsum EXCEPT ![0] = Zero]
  /\ sum' = [sum EXCEPT ![0] = Zero]
  /\ ret' = [ret EXCEPT ![0] = NoRet]
  /\ did' = [did EXCEPT ![0] = Fresh(forces[0], XiOf(ParSets[in.vec]))]
  /\ pc' = [pc EXCEPT ![0] = IF build.MPI THEN "bcast_flag" ELSE "eval"]
  /\ UNCHANGED <<build, sw, forces, cache, fcalls, down, up>>

\* a loop that does not look at the flag after MPI_Bcast(&flag)
after_flag_ignored(f) == "bcast_xi"

\* where MPI_Bcast(&flag) leaves a process: break on flag 1
after_flag(f) == IF f = 1 THEN "exit" ELSE "bcast_xi"

\* MPI_Bcast(&flag, ...) on the root
BcastFlagRoot ==
  /\ pc[0] = "bcast_flag"
  /\ down' = [p \in AllProcs |-> IF p = 0 THEN down[p] ELSE Append(down[p], [flag |-> flag[0]])]
  /\ pc' = [pc EXCEPT ![0] = after_flag(flag[0])]
  /\ ret' = [ret EXCEPT ![0] = IF after_flag(flag[0]) = "exit" THEN MinusOne ELSE @]
  /\ UNCHANGED <<build, flag, xi, addr, sw, forces, cache, tmpsum, sum, fcalls, did, up>>

\* MPI_Bcast(&flag, ...) on another process
BcastFlagRecv(p) ==
  /\ p \in Workers
  /\ pc[p] = "bcast_flag"
  /\ down[p] # <<>>
  /\ flag' = [flag EXCEPT ![p] = Head(down[p]).flag]
  /\ down' = [down EXCEPT ![p] = Tail(@)]
  /\ pc' = [pc EXCEPT ![p] = after_flag(Head(down[p]).flag)]
  /\ ret' = [ret EXCEPT ![p] = IF after_flag(Head(down[p]).flag) = "exit" THEN MinusOne ELSE @]
  /\ UNCHANGED <<build, xi, addr, sw, forces, cache, tmpsum, sum, fcalls, did, up>>

\* a root that broadcasts the table as the caller passed it
root_table_unclamped(x) == x

\* the table the root broadcasts: if (0 == myid) apot_check_params(xi_opt)
root_table(x) == apot_check_params(x)

\* apot_check_params and MPI_Bcast(xi_opt, ...) on the root
BcastXiRoot ==
  /\ pc[0] = "bcast_xi"
  /\ xi' = [xi EXCEPT ![0] = root_table(xi[0])]
  /\ did' = [did EXCEPT ![0].checks = @ + 1]
  /\ down' = [p \in AllProcs |-> IF p = 0 THEN down[p] ELSE Append(down[p], [xi |-> xi'[0]])]
  /\ pc' = [pc EXCEPT ![0] = "eval"]
  /\ UNCHANGED <<build, flag, addr, sw, forces, cache, tmpsum, sum, ret, fcalls, up>>

\* MPI_Bcast(xi_opt, ...) on another process
BcastXiRecv(p) ==
  /\ p \in Workers
  /\ pc[p] = "bcast_xi"
  /\ down[p] # <<>>
  /\ xi' = [xi EXCEPT ![p] = Head(down[p]).xi]
  /\ down' = [down EXCEPT ![p] = Tail(@)]
  /\ pc' = [pc EXCEPT ![p] = "eval"]
  /\ UNCHANGED <<build, flag, addr, sw, forces, cache, tmpsum, sum, ret, fcalls, did, up>>

\* the punishment added by every process, not by the root alone
punished_everywhere(p, x, t) == Add(t, apot_punish(x))

\* if (myid == 0) tmpsum += apot_punish(xi_opt, forces)
punished(p, x, t) == IF p = 0 THEN Add(t, apot_punish(x)) ELSE t

\* the configurations of process p: firstconf and firstconf + myconf
conf_first(p) == firstconf(nprocs, p)
conf_last(p) == firstconf(nprocs, p) + myconf(nprocs, p)

\* update_stiweb_pointers, the loop over configurations and the punishment,
\* after apot_check_params in a build without MPI
Evaluate(p) ==
  /\ p \in Procs
  /\ pc[p] = "eval"
  /\ \E x \in {IF build.MPI THEN xi[p] ELSE apot_check_params(xi[p])},
        s \in {update_stiweb_pointers(sw[p], addr[p])} :
       \E e \in {[xi |-> x, base |-> addr[p], sw |-> s, build |-> build]} :
         \E st \in {conf_loop(e, [forces |-> forces[p], tmpsum |-> tmpsum[p], atom |-> -1,
                                  cache |-> cache[p], applied |-> did[p].applied,
                                  stressfit |-> did[p].stressfit, confs |-> did[p].confs],
                              conf_first(p), conf_last(p))} :
           \E t \in {punished(p, x, st.tmpsum)} :
             /\ xi' = [xi EXCEPT ![p] = x]
             /\ sw' = [sw EXCEPT ![p] = s]
             /\ forces' = [forces EXCEPT ![p] = st.forces]
             /\ cache' = [cache EXCEPT ![p] = st.cache]
             /\ tmpsum' = [tmpsum EXCEPT ![p] = t]
             /\ sum' = [sum EXCEPT ![p] = IF build.MPI THEN Zero ELSE t]
             /\ did' = [did EXCEPT ![p].checks = IF build.MPI THEN @ ELSE @ + 1,
                                   ![p].updates = @ + 1,
                                   ![p].oldA = sw_alloc(sw[p]).A[0],
                                   ![p].rebuilt = address_changed(sw_alloc(sw[p]), addr[p]),
                                   ![p].applied = st.applied,
                                   ![p].stressfit = st.stressfit,
                                   ![p].confs = st.confs]
  /\ pc' = [pc EXCEPT ![p] = IF build.MPI THEN "reduce" ELSE "return"]
  /\ UNCHANGED <<build, flag, addr, ret, fcalls, down, up>>

\* MPI_Reduce(&tmpsum, &sum, ...) on a process that is not the root
ReduceSend(p) ==
  /\ p \in Workers
  /\ pc[p] = "reduce"
  /\ up' = [up EXCEPT ![p] = Append(@, [tmpsum |-> tmpsum[p]])]
  /\ pc' = [pc EXCEPT ![p] = "gather_f"]
  /\ did' = [did EXCEPT ![p].collect = @ + 1]
  /\ UNCHANGED <<build, flag, xi, addr, sw, forces, cache, tmpsum, sum, ret, fcalls, down>>

RECURSIVE SumOf(_, _)
SumOf(f, S) ==
  IF S = {} THEN Zero ELSE LET q == CHOOSE q \in S : TRUE IN Add(f[q], SumOf(f, S \ {q}))

\* MPI_Reduce(&tmpsum, &sum, 1, MPI_DOUBLE, MPI_SUM, 0, ...) on the root
ReduceRoot ==
  /\ pc[0] = "reduce"
  /\ \A p \in Workers : up[p] # <<>>
  /\ sum' = [sum EXCEPT ![0] =
               Add(tmpsum[0], SumOf([p \in Workers |-> Head(up[p]).tmpsum], Workers))]
  /\ up' = [p \in AllProcs |-> IF p = 0 THEN up[p] ELSE Tail(up[p])]
  /\ pc' = [pc EXCEPT ![0] = "gather_f"]
  /\ did' = [did EXCEPT ![0].collect = @ + 1]
  /\ UNCHANGED <<build, flag, xi, addr, sw, forces, cache, tmpsum, ret, fcalls, down>>

\* the three MPI_Gatherv, in the order of the code, and what follows the last
GatherNext(at) ==
  CASE at = "gather_f" -> "gather_e" [] at = "gather_e" -> "gather_s" [] at = "gather_s" -> "done"

\* the slots process p contributes to the gather at: its atoms' forces
\* (MPI_VECTOR), its configurations' energies, their stresses (MPI_STENS)
GatherSlots(at, p) ==
  CASE at = "gather_f" ->
         {s \in Slots : s >= 3 * firstatom(nprocs, p)
                        /\ s < 3 * (firstatom(nprocs, p) + myatoms(nprocs, p))}
    [] at = "gather_e" ->
         {s \in Slots : s >= natoms * 3 + conf_first(p) /\ s < natoms * 3 + conf_last(p)}
    [] at = "gather_s" ->
         {s \in Slots : s >= natoms * 3 + nconf + 6 * conf_first(p)
                        /\ s < natoms * 3 + nconf + 6 * conf_last(p)}

Gathers == {"gather_f", "gather_e", "gather_s"}

\* MPI_Gatherv on a process that is not the root; after the last, the top of
\* the loop: tmpsum = 0.0, and the next MPI_Bcast(&flag)
GatherSend(p) ==
  /\ p \in Workers
  /\ pc[p] \in Gathers
  /\ up' = [up EXCEPT ![p] = Append(@, [data |-> [s \in GatherSlots(pc[p], p) |-> forces[p][s]]])]
  /\ pc' = [pc EXCEPT ![p] = IF GatherNext(@) = "done" THEN "bcast_flag" ELSE GatherNext(@)]
  /\ tmpsum' = [tmpsum EXCEPT ![p] = IF GatherNext(pc[p]) = "done" THEN Zero ELSE @]
  /\ did' = [did EXCEPT ![p] = IF GatherNext(pc[p]) = "done" THEN Fresh(forces[p], xi[p])
                                ELSE [@ EXCEPT !.collect = @ + 1]]
  /\ UNCHANGED <<build, flag, xi, addr, sw, forces, cache, sum, ret, fcalls, down>>

\* a root that leaves after the first MPI_Gatherv
root_after_first(at) == "return"

\* where the root goes after MPI_Reduce and after each MPI_Gatherv
root_after(at) == IF GatherNext(at) = "done" THEN "return" ELSE GatherNext(at)

\* MPI_Gatherv(MPI_IN_PLACE, ...) on the root
GatherRoot ==
  /\ pc[0] \in Gathers
  /\ \A p \in Workers : up[p] # <<>>
  /\ forces' = [forces EXCEPT ![0] =
                  [s \in Slots |->
                     IF \E p \in Workers : s \in DOMAIN Head(up[p]).data
                     THEN Head(up[CHOOSE p \in Workers : s \in DOMAIN Head(up[p]).data]).data[s]
                     ELSE forces[0][s]]]
  /\ up' = [p \in AllProcs |-> IF p = 0 THEN up[p] ELSE Tail(up[p])]
  /\ pc' = [pc EXCEPT ![0] = root_after(@)]
  /\ did' = [did EXCEPT ![0].collect = @ + 1]
  /\ UNCHANGED <<build, flag, xi, addr, sw, cache, tmpsum, sum, ret, fcalls, down>>

\* a return without the test of isnan(sum)
returned_raw(s) == s

\* if (isnan(sum)) return 10e30; else return sum;
returned(s) == IF isnan(s) THEN Sentinel ELSE s

\* "root process exits this function now": fcalls++ and the return
Return ==
  /\ pc[0] = "return"
  /\ fcalls' = fcalls + 1
  /\ did' = [did EXCEPT ![0].nantests = @ + 1]
  /\ ret' = [ret EXCEPT ![0] = returned(sum[0])]
  /\ pc' = [pc EXCEPT ![0] = "idle"]
  /\ UNCHANGED <<build, flag, xi, addr, sw, forces, cache, tmpsum, sum, down, up>>

Next ==
  \/ \E in \in Inputs, f \in Flags : Call(in, f)
  \/ BcastFlagRoot
  \/ \E p \in Workers : BcastFlagRecv(p)
  \/ BcastXiRoot
  \/ \E p \in Workers : BcastXiRecv(p)
  \/ \E p \in AllProcs : Evaluate(p)
  \/ \E p \in Workers : ReduceSend(p)
  \/ ReduceRoot
  \/ \E p \in Workers : GatherSend(p)
  \/ GatherRoot
  \/ Return

Spec == Init /\ [][Next]_vars

(* ------------------------------ properties ---------------------------- *)
\* process p has run update_stiweb_pointers and its loop over configurations
\* in the round it is in
Evaluated(p) == did[p].updates = 1

\* process p has done nothing since the top of its loop
NoWork(p) ==
  did[p].checks = 0 /\ did[p].updates = 0 /\ did[p].confs = {} /\ forces[p] = did[p].buf

\* the configurations of process p
MyConfs(p) == {h \in Confs : h >= conf_first(p) /\ h < conf_last(p)}

\* the evaluation of every configuration by one process, with the table and
\* the views of the root, starting from the buffer f
RefEval(f) ==
  conf_loop([xi |-> xi[0], base |-> addr[0], sw |-> sw[0], build |-> build],
            [forces |-> f, tmpsum |-> Zero, atom |-> -1, cache |-> NoCache,
             applied |-> NoneApplied, stressfit |-> {}, confs |-> {}],
            0, nconf)

\* a buffer that no call leaves behind
OtherBuffer == [s \in Slots |-> R(-3)]

\* the slots an evaluation computes: forces and energies, and the stresses
\* in a build with STRESS
ComputedSlots == {s \in Slots : s < stress_p \/ build.STRESS}

\* the last atom of the configuration atom g is in
LastAtomOf(g) ==
  CHOOSE a \in Atoms :
    \E h \in Confs : /\ g >= cnfstart(h) /\ g < cnfstart(h) + inconf(h)
                     /\ a = cnfstart(h) + inconf(h) - 1

\* the slot of the table at addr[p] a view of process p points at
SlotOf(p, ptr) == ptr - addr[p]

\* the views of process p, as the set of <<name, slot>>
ViewsOf(p) ==
  UNION {{<<nm, SlotOf(p, sw[p][nm][c])>> : c \in Cols} :
         nm \in {"A", "B", "p", "q", "delta", "a1", "gamma", "a2"}}
    \cup {<<"lambda", SlotOf(p, sw[p].lambda[t])>> : t \in Triples}

C3_ClampOnceThenBroadcast ==
  build.MPI =>
    /\ \A p \in Workers : \A i \in 1 .. Len(down[p]) :
         "xi" \in DOMAIN down[p][i] => down[p][i].xi = apot_check_params(did[0].arg)
    /\ pc[0] \in {"eval", "reduce", "gather_f", "gather_e", "gather_s", "return"} =>
         did[0].checks = 1 /\ xi[0] = apot_check_params(did[0].arg)
    /\ \A p \in Workers :
         /\ did[p].checks = 0
         /\ (pc[p] = "eval" \/ Evaluated(p)) =>
              /\ flag[p] = flag[0] /\ flag[p] # 1
              /\ xi[p] = xi[0] /\ xi[p] = apot_check_params(did[0].arg)

\* C3, reached: in a later round, a process that is not the root has
\* evaluated with a table that clamping changed
C3_Witness ==
  /\ build.MPI /\ fcalls >= 1
  /\ \E p \in Workers : pc[p] = "reduce" /\ xi[p] = xi[0] /\ xi[p] # did[0].arg

\* C4: with MPI, a process that is not the root has returned if and only if
\* it left the loop, which it does only with flag 1 and the value -1; the
\* root is at its return only after MPI_Reduce and the three MPI_Gatherv,
\* when every other process has sent everything and waits for the next flag.
C4_OnlyRootReturns ==
  build.MPI =>
    /\ \A p \in Workers :
         /\ (pc[p] = "exit") = (ret[p] # NoRet)
         /\ pc[p] = "exit" => flag[p] = 1 /\ ret[p] = MinusOne
    /\ (pc[0] = "return" \/ (pc[0] = "idle" /\ Evaluated(0))) =>
         /\ did[0].collect = 4 /\ flag[0] # 1
         /\ \A p \in Workers : up[p] = <<>> /\ pc[p] = "bcast_flag" /\ ret[p] = NoRet

\* C4, reached: the root has returned from its second round, the others wait
C4_Witness ==
  /\ build.MPI /\ fcalls = 2 /\ pc[0] = "idle" /\ ret[0] # NoRet
  /\ \A p \in Workers : pc[p] = "bcast_flag"

\* C5: no process returns NaN; the root, back from a round that evaluated,
\* has tested isnan(sum) once and returned 10e30 for a NaN sum and the sum
\* otherwise; no other process tests.
C5_NaNBecomesSentinel ==
  /\ \A p \in AllProcs : Len(ret[p]) = 2 => ~isnan(ret[p])
  /\ did[0].nantests <= 1
  /\ \A p \in Workers : did[p].nantests = 0
  /\ (pc[0] = "idle" /\ Evaluated(0)) =>
       /\ did[0].nantests = 1
       /\ ret[0] = IF isnan(sum[0]) THEN Sentinel ELSE sum[0]

\* C5, reached: the root has returned 10e30
C5_Witness == pc[0] = "idle" /\ ret[0] = Sentinel /\ isnan(sum[0])

\* C6: with MPI, the sum the root returns is the sum one process obtains by
\* evaluating every configuration, plus apot_punish once; the blocks of the
\* processes partition the configurations, and a process evaluates exactly
\* its block.
C6_SumIndependentOfProcs ==
  build.MPI =>
    /\ \A h \in Confs : Cardinality({p \in Procs : h \in MyConfs(p)}) = 1
    /\ \A p \in Procs : Evaluated(p) => did[p].confs = MyConfs(p)
    /\ pc[0] = "return" =>
         \A r \in {RefEval(InitialForces)} :
           r.confs = Confs /\ sum[0] = Add(r.tmpsum, apot_punish(xi[0]))

\* C6, reached: the root has reduced a sum with a punishment in it
C6_Witness ==
  /\ build.MPI /\ pc[0] = "return" /\ ~isnan(sum[0])
  /\ apot_punish(xi[0]) # Zero

\* C7, what the code does: the absforce and contrib the third loop applies
\* to an atom are those of the last atom of its configuration
C7_LastAtomData ==
  \A p \in Procs : \A g \in Atoms : did[p].applied[g] \in {-1, LastAtomOf(g)}

\* C7, reached: the third loop applied the data of atom 1 to atom 0
C7_Witness == \E p \in Procs : did[p].applied[0] = 1

\* C7 as stated: the absforce and contrib the third loop applies to an atom
\* are those of the atom itself
C7_OwnAtomData ==
  \A p \in Procs : \A g \in Atoms : did[p].applied[g] \in {-1, g}

\* C8 (amended): in a build with STRESS the stress residuals of a
\* configuration are divided by the volume, reduced by the reference and
\* added to the sum if and only if both its stress flag and its force flag
\* are on; in a build without STRESS, of no configuration.
C8_StressNeedsForceFlag ==
  \A p \in Procs :
    Evaluated(p) =>
      did[p].stressfit = {h \in did[p].confs : build.STRESS /\ conf_uf(h) /\ conf_us(h)}

\* C8, reached: a process has evaluated a configuration with the stress flag
\* on and the force flag off, and one with both on
C8_Witness ==
  \E p \in Procs :
    /\ build.STRESS /\ Evaluated(p)
    /\ \E h \in did[p].confs : conf_us(h) /\ ~conf_uf(h)
    /\ \E h \in did[p].stressfit : conf_us(h) /\ conf_uf(h)

\* C8 as stated: in a build with STRESS the stress residuals are added for
\* every configuration whose stress flag is on, whatever its force flag is
C8_StressWheneverFlagOn ==
  \A p \in Procs :
    (Evaluated(p) /\ build.STRESS) =>
      did[p].stressfit = {h \in did[p].confs : conf_us(h)}

\* C9 (amended): counting slots from the start of the table, A, B, p, q,
\* delta, a1 of pair column c are the slots 8c+2 .. 8c+7, gamma and a2 the
\* slots 8P+4c+2 and 8P+4c+3, lambda[i][j][k] the slot
\* 12P+2+(i*T+j)*T+k; no two views are the same slot.
C9_LayoutStartsAtTwo ==
  \A p \in Procs :
    Evaluated(p) =>
      /\ \A c \in Cols :
           /\ SlotOf(p, sw[p].A[c]) = 8 * c + 2
           /\ SlotOf(p, sw[p].B[c]) = 8 * c + 3
           /\ SlotOf(p, sw[p].p[c]) = 8 * c + 4
           /\ SlotOf(p, sw[p].q[c]) = 8 * c + 5
           /\ SlotOf(p, sw[p].delta[c]) = 8 * c + 6
           /\ SlotOf(p, sw[p].a1[c]) = 8 * c + 7
           /\ SlotOf(p, sw[p].gamma[c]) = 8 * paircol + 4 * c + 2
           /\ SlotOf(p, sw[p].a2[c]) = 8 * paircol + 4 * c + 3
      /\ \A t \in Triples :
           SlotOf(p, sw[p].lambda[t]) = 12 * paircol + 2 + (t[1] * ntypes + t[2]) * ntypes + t[3]
      /\ Cardinality({v[2] : v \in ViewsOf(p)}) = 8 * paircol + ntypes * ntypes * ntypes

\* C9, reached: a process has set its views for a table at the second address
C9_Witness ==
  \E p \in Procs : Evaluated(p) /\ did[p].rebuilt /\ addr[p] = 2000 /\ sw[p].A[0] = 2002

\* C9 as stated: A .. a1 are the slots 8c .. 8c+5, gamma and a2 the slots
\* 8P+4c and 8P+4c+1, lambda[i][j][k] the slot 12P+(i*T+j)*T+k
C9_LayoutStartsAtZero ==
  \A p \in Procs :
    Evaluated(p) =>
      /\ \A c \in Cols :
           /\ SlotOf(p, sw[p].A[c]) = 8 * c
           /\ SlotOf(p, sw[p].a1[c]) = 8 * c + 5
           /\ SlotOf(p, sw[p].gamma[c]) = 8 * paircol + 4 * c
           /\ SlotOf(p, sw[p].a2[c]) = 8 * paircol + 4 * c + 1
      /\ \A t \in Triples :
           SlotOf(p, sw[p].lambda[t]) = 12 * paircol + (t[1] * ntypes + t[2]) * ntypes + t[3]

\* C10: when the root is at its return, every force and energy slot, and
\* every stress slot in a build with STRESS, holds what an evaluation of the
\* same table from any other buffer and from fresh neighbour data leaves
\* there, and the sum is the sum of that evaluation: nothing an earlier call
\* left behind is read.
C10_BufferOverwritten ==
  pc[0] = "return" =>
    \A r \in {RefEval(OtherBuffer)} :
      /\ \A s \in ComputedSlots : forces[0][s] = r.forces[s]
      /\ sum[0] = Add(r.tmpsum, apot_punish(xi[0]))

\* C10, reached: the root is at the return of its second call, the buffer
\* differs from what the caller first passed and from the other buffer
C10_Witness ==
  /\ pc[0] = "return" /\ fcalls = 1
  /\ \E s \in ComputedSlots : forces[0][s] # InitialForces[s] /\ forces[0][s] # OtherBuffer[s]
====
